---- MODULE Spec2Model ----
(***************************************************************************)
(* utils::HashTable (kernel/lib/utils/include/utils/intrusive_hash_table.h)*)
(* An intrusive chained hash table: a fixed array of kNumBuckets buckets,  *)
(* each an intrusive list of objects, and a maintained element count.      *)
(*                                                                         *)
(* Objects are pairs <<key, tag>>: the key is what KeyTraits::GetKey       *)
(* returns (constant while the object is stored), the tag distinguishes    *)
(* objects with equal keys (object identity).  A null PtrType is Null.     *)
(***************************************************************************)
EXTENDS Integers, Sequences, FiniteSets, TLC

\* ---- bounds of the model -------------------------------------------------
kNumBuckets == 3        \* _NumBuckets of the instantiation
MaxKey      == 3        \* keys are 0..MaxKey
MaxStored   == 3        \* the client never stores more objects than this

Keys    == 0..MaxKey
Tags    == {"a", "b"}
Objs    == Keys \X Tags
Null    == <<>>
Buckets == 0..(kNumBuckets - 1)
Preds   == {"any", "none", "tag_b", "key_hi"}

\* The UnaryFn arguments the client passes to erase_if / find_if.
Pred(p, obj) ==
    CASE p = "any"    -> TRUE
      [] p = "none"   -> FALSE
      [] p = "tag_b"  -> obj[2] = "b"
      [] p = "key_hi" -> obj[1] >= 2

Accepted(p) == {o \in Objs : Pred(p, o)}

\* ---- generic sequence helpers --------------------------------------------
Min(S) == CHOOSE x \in S : \A y \in S : x <= y

Range(s) == {s[i] : i \in 1..Len(s)}

IndexOf(s, x) == Min({i \in 1..Len(s) : s[i] = x})

RemoveAt(s, i) == SubSeq(s, 1, i - 1) \o SubSeq(s, i + 1, Len(s))

\* ---- key and hash traits -------------------------------------------------
GetKey(obj) == obj[1]

EqualTo(key1, key2) == key1 = key2

\* ObjType::GetHash, the user's raw hash function.
ObjGetHash(key) == key

HashTraits_GetHash(key) == ObjGetHash(key) % kNumBuckets

\* HashTable::GetHash: DEBUG_ASSERT((ret >= 0) && (ret < kNumBuckets))
GetHashInRange(key) == HashTraits_GetHash(key) >= 0 /\ HashTraits_GetHash(key) < kNumBuckets

GetHash(key) == HashTraits_GetHash(key)

\* Faulty variant of GetBucketNdx: every key is routed to bucket 0.
GetBucketNdx_Zero(key) == 0

\* HashTable::GetBucket(const KeyType&): the index into buckets_.
GetBucketNdx(key) == GetHash(key)

GetBucketNdxObj(obj) == GetBucketNdx(GetKey(obj))

\* ---- the bucket type (intrusive list) ------------------------------------
\* A bucket is the sequence of the objects of its chain, head first.
list_push_front(b, obj) == <<obj>> \o b

list_is_empty(b) == Len(b) = 0

\* A predicate handed to the list is the set of the objects it accepts.
\* Index of the first element of b that the predicate accepts, 0 if none.
FirstMatch(b, accepted) ==
    LET m == {i \in 1..Len(b) : b[i] \in accepted}
    IN  IF m = {} THEN 0 ELSE Min(m)

list_find_if(b, accepted) ==
    LET i == FirstMatch(b, accepted) IN IF i = 0 THEN Null ELSE b[i]

\* erase_if of the list: <<removed object or Null, remaining chain>>.
list_erase_if(b, accepted) ==
    LET i == FirstMatch(b, accepted)
    IN  IF i = 0 THEN <<Null, b>> ELSE <<b[i], RemoveAt(b, i)>>

\* internal::KeyEraseUtils<BucketType, KeyTraits>::erase(bucket, key)
KeyEraseUtils_erase(b, key) ==
    list_erase_if(b, {o \in Objs : EqualTo(key, GetKey(o))})

\* internal::DirectEraseUtils<BucketType>::erase(bucket, obj): unlink the
\* object obj itself (identity) from the chain.
DirectEraseUtils_erase(b, obj) == list_erase_if(b, {obj})

\* In-bucket iterators: the list they walk and the node they denote (Null at
\* the end of the list).  Two of them are equal when they denote the same node.
list_begin(bk, i) == [list_ |-> i, node_ |-> IF list_is_empty(bk[i]) THEN Null ELSE bk[i][1]]

list_end(bk, i) == [list_ |-> i, node_ |-> Null]

list_make_iterator(i, obj) == [list_ |-> i, node_ |-> obj]

list_iter_IsValid(li) == li.node_ # Null

list_iter_eq(li1, li2) == li1.node_ = li2.node_

\* ++ of an in-bucket iterator: the next node of the chain, the end after the
\* last one; an iterator at the end stays there.
list_iter_inc(bk, li) ==
    IF ~list_iter_IsValid(li) THEN li
    ELSE LET b == bk[li.list_]
             i == IndexOf(b, li.node_)
         IN  [li EXCEPT !.node_ = IF i = Len(b) THEN Null ELSE b[i + 1]]

\* -- of an in-bucket iterator: the previous node; backing up from the first
\* node leaves the iterator invalid; backing up from the end gives the last
\* node of the list (still invalid on an empty list).
list_iter_dec(bk, li) ==
    LET b == bk[li.list_]
    IN  IF list_iter_IsValid(li)
        THEN LET i == IndexOf(b, li.node_)
             IN  [li EXCEPT !.node_ = IF i = 1 THEN Null ELSE b[i - 1]]
        ELSE [li EXCEPT !.node_ = IF list_is_empty(b) THEN Null ELSE b[Len(b)]]

\* ---- HashTable: the operations as functions of (buckets_, count_) --------
EmptyBuckets == [i \in Buckets |-> <<>>]

\* Faulty variant of insert: the object is linked at the tail of its bucket.
insert_buckets_PushBack(bk, obj) ==
    [bk EXCEPT ![GetBucketNdxObj(obj)] = Append(@, obj)]

\* insert(PtrType&&): GetBucket(*ptr).push_front(move(ptr))
insert_buckets(bk, obj) ==
    [bk EXCEPT ![GetBucketNdxObj(obj)] = list_push_front(@, obj)]

\* Faulty variant of find: the last key match of the chain, not the first.
find_Last(bk, key) ==
    LET b == bk[GetBucketNdx(key)]
        m == {i \in 1..Len(b) : EqualTo(key, GetKey(b[i]))}
    IN  IF m = {} THEN Null ELSE b[CHOOSE i \in m : \A j \in m : j <= i]

\* find(const KeyType&)
find(bk, key) ==
    list_find_if(bk[GetBucketNdx(key)], {other \in Objs : EqualTo(key, GetKey(other))})

\* Faulty variant of CountAfterErase: decrements without looking at ret.
CountAfterErase_Always(count, ret) == IF count > 0 THEN count - 1 ELSE count

\* "if (ret != nullptr) --count_;" of erase(key), direct_erase and erase_if
CountAfterErase(count, ret) == IF ret # Null THEN count - 1 ELSE count

\* Faulty variant of erase(key): unlinks the last key match of the chain.
erase_key_Ndx_Last(bk, key) ==
    LET ndx == GetBucketNdx(key)
        b   == bk[ndx]
        m   == {i \in 1..Len(b) : EqualTo(key, GetKey(b[i]))}
        i   == CHOOSE i \in m : \A j \in m : j <= i
    IN  IF m = {} THEN <<Null, bk>> ELSE <<b[i], [bk EXCEPT ![ndx] = RemoveAt(b, i)]>>

\* Faulty variant of erase(key): with no key match it drops the chain's head.
erase_key_HeadIfAbsent(bk, key) ==
    LET ndx == GetBucketNdx(key)
        r   == KeyEraseUtils_erase(bk[ndx], key)
    IN  IF r[1] = Null /\ ~list_is_empty(bk[ndx])
        THEN <<Null, [bk EXCEPT ![ndx] = Tail(@)]>>
        ELSE <<r[1], [bk EXCEPT ![ndx] = r[2]]>>

\* erase(const KeyType&): <<ret, buckets_ afterwards>>
erase_key(bk, key) ==
    LET ndx == GetBucketNdx(key)
        r   == KeyEraseUtils_erase(bk[ndx], key)
    IN  <<r[1], [bk EXCEPT ![ndx] = r[2]]>>

\* direct_erase(bucket, obj) on the bucket at index ndx: <<ret, buckets_>>
direct_erase(bk, ndx, obj) ==
    LET r == DirectEraseUtils_erase(bk[ndx], obj)
    IN  <<r[1], [bk EXCEPT ![ndx] = r[2]]>>

\* Faulty variant of erase(ValueType&): unlinks the first object with obj's key.
erase_obj_ByKey(bk, obj) == erase_key(bk, GetKey(obj))

\* erase(ValueType&)
erase_obj(bk, obj) == direct_erase(bk, GetBucketNdxObj(obj), obj)

\* Faulty variant of clear: the loop stops one bucket short.
clear_buckets_SkipLast(bk) ==
    [i \in Buckets |-> IF i = kNumBuckets - 1 THEN bk[i] ELSE <<>>]

\* clear(): every bucket cleared
clear_buckets(bk) == [i \in Buckets |-> <<>>]

size(count) == count

is_empty(count) == count = 0

\* The for loop of erase_if, from bucket index i on.
RECURSIVE erase_if_loop(_, _, _)
erase_if_loop(bk, p, i) ==
    IF i >= kNumBuckets THEN <<Null, bk>>
    ELSE LET r == list_erase_if(bk[i], Accepted(p))
         IN  IF ~list_is_empty(bk[i]) /\ r[1] # Null
             THEN <<r[1], [bk EXCEPT ![i] = r[2]]>>
             ELSE erase_if_loop(bk, p, i + 1)

\* Faulty variant of erase_if: gives up after the first non-empty bucket.
erase_if_FirstBucketOnly(bk, count, p) ==
    LET ne == {i \in Buckets : ~list_is_empty(bk[i])}
        i  == Min(ne)
        r  == list_erase_if(bk[i], Accepted(p))
    IN  IF ne = {} THEN <<Null, bk>> ELSE <<r[1], [bk EXCEPT ![i] = r[2]]>>

\* erase_if(UnaryFn): <<ret, buckets_ afterwards>>
erase_if(bk, count, p) ==
    IF is_empty(count) THEN <<Null, bk>> ELSE erase_if_loop(bk, p, 0)

\* The for loop of find_if, from bucket index i on.
RECURSIVE find_if_loop(_, _, _)
find_if_loop(bk, p, i) ==
    IF i >= kNumBuckets THEN Null
    ELSE LET ret == list_find_if(bk[i], Accepted(p))
         IN  IF ~list_is_empty(bk[i]) /\ ret # Null
             THEN ret
             ELSE find_if_loop(bk, p, i + 1)

\* Faulty variant of find_if: gives up after the first non-empty bucket.
find_if_FirstBucketOnly(bk, count, p) ==
    LET ne == {i \in Buckets : ~list_is_empty(bk[i])}
    IN  IF ne = {} THEN Null ELSE list_find_if(bk[Min(ne)], Accepted(p))

\* find_if(UnaryFn)
find_if(bk, count, p) ==
    IF is_empty(count) THEN Null ELSE find_if_loop(bk, p, 0)

\* ---- HashTable::iterator_impl ---------------------------------------------
\* iterator_impl(): never bound to a table, invalid.
DefaultIter ==
    [hash_table_ |-> FALSE, bucket_ndx_ |-> 0, iter_ |-> [list_ |-> 0, node_ |-> Null]]

IsValid(it) == list_iter_IsValid(it.iter_)

\* operator==: only the in-bucket iterators are compared.
IterEq(it1, it2) == list_iter_eq(it1.iter_, it2.iter_)

\* operator*
Deref(it) == it.iter_.node_

\* The while loop of advance_if_invalid_iter.
RECURSIVE advance_loop(_, _)
advance_loop(bk, it) ==
    IF it.bucket_ndx_ < kNumBuckets - 1
    THEN LET n == it.bucket_ndx_ + 1
         IN  IF ~list_is_empty(bk[n])
             THEN [it EXCEPT !.bucket_ndx_ = n, !.iter_ = list_begin(bk, n)]
             ELSE IF n = kNumBuckets - 1
                  THEN advance_loop(bk, [it EXCEPT !.bucket_ndx_ = n, !.iter_ = list_end(bk, n)])
                  ELSE advance_loop(bk, [it EXCEPT !.bucket_ndx_ = n])
    ELSE it

\* Faulty variant of advance_if_invalid_iter: steps to the next bucket only,
\* empty or not.
advance_if_invalid_iter_NextOnly(bk, it) ==
    IF ~IsValid(it) /\ it.bucket_ndx_ < kNumBuckets - 1
    THEN LET n == it.bucket_ndx_ + 1
         IN  [it EXCEPT !.bucket_ndx_ = n, !.iter_ = list_begin(bk, n)]
    ELSE it

advance_if_invalid_iter(bk, it) ==
    IF ~IsValid(it) THEN advance_loop(bk, it) ELSE it

\* Faulty variant of the BeginTag constructor: the position is not advanced to
\* the first non-empty bucket.
iter_begin_NoAdvance(bk) ==
    [hash_table_ |-> TRUE, bucket_ndx_ |-> 0, iter_ |-> list_begin(bk, 0)]

\* iterator_impl(HTPtrType, BeginTag): what begin() / cbegin() return
iter_begin(bk) ==
    advance_if_invalid_iter(bk,
        [hash_table_ |-> TRUE, bucket_ndx_ |-> 0, iter_ |-> list_begin(bk, 0)])

\* iterator_impl(HTPtrType, EndTag): what end() / cend() return
iter_end(bk) ==
    [hash_table_ |-> TRUE, bucket_ndx_ |-> kNumBuckets - 1,
     iter_ |-> list_end(bk, kNumBuckets - 1)]

\* Faulty variant of make_iterator: the bucket index is not computed from the
\* object's key.
make_iterator_Ndx0(bk, obj) ==
    LET ndx == GetHash(GetKey(obj))
    IN  [hash_table_ |-> TRUE, bucket_ndx_ |-> 0, iter_ |-> list_make_iterator(ndx, obj)]

\* make_iterator(ValueType&)
make_iterator(bk, obj) ==
    LET ndx == GetHash(GetKey(obj))
    IN  [hash_table_ |-> TRUE, bucket_ndx_ |-> ndx, iter_ |-> list_make_iterator(ndx, obj)]

\* Faulty variant of operator++: the position is not advanced past the end of
\* a bucket.
op_inc_NoAdvance(bk, it) ==
    IF ~IsValid(it) THEN it
    ELSE [it EXCEPT !.iter_ = list_iter_inc(bk, it.iter_)]

\* operator++ (prefix)
op_inc(bk, it) ==
    IF ~IsValid(it) THEN it
    ELSE advance_if_invalid_iter(bk, [it EXCEPT !.iter_ = list_iter_inc(bk, it.iter_)])

\* The while (bucket_ndx_) loop of operator--, and the wrap that follows it.
RECURSIVE dec_loop(_, _)
dec_loop(bk, it) ==
    IF it.bucket_ndx_ # 0
    THEN LET n == it.bucket_ndx_ - 1
         IN  IF ~list_is_empty(bk[n])
             THEN [it EXCEPT !.bucket_ndx_ = n, !.iter_ = list_iter_dec(bk, list_end(bk, n))]
             ELSE dec_loop(bk, [it EXCEPT !.bucket_ndx_ = n])
    ELSE [it EXCEPT !.bucket_ndx_ = kNumBuckets - 1,
                    !.iter_ = list_end(bk, kNumBuckets - 1)]

\* Faulty variant of operator--: backing up past the beginning is a no-op.
op_dec_NoWrap(bk, it) ==
    IF ~it.hash_table_ THEN it
    ELSE LET d == [it EXCEPT !.iter_ = list_iter_dec(bk, it.iter_)]
             w == dec_loop(bk, d)
         IN  IF IsValid(d) THEN d ELSE IF IsValid(w) THEN w ELSE it

\* Faulty variant of operator--: the scan of the previous buckets stops before
\* bucket 0.
op_dec_SkipsBucket0(bk, it) ==
    IF ~it.hash_table_ THEN it
    ELSE LET d == [it EXCEPT !.iter_ = list_iter_dec(bk, it.iter_)]
             c == {n \in 1..(it.bucket_ndx_ - 1) : ~list_is_empty(bk[n])}
             n == CHOOSE x \in c : \A y \in c : y <= x
         IN  IF IsValid(d) THEN d
             ELSE IF c # {}
                  THEN [d EXCEPT !.bucket_ndx_ = n,
                                 !.iter_ = list_iter_dec(bk, list_end(bk, n))]
                  ELSE [d EXCEPT !.bucket_ndx_ = kNumBuckets - 1,
                                 !.iter_ = list_end(bk, kNumBuckets - 1)]

\* Faulty variant of operator--: a previous bucket is entered at its first
\* object, not at its last.
op_dec_BucketBegin(bk, it) ==
    IF ~it.hash_table_ THEN it
    ELSE LET d == [it EXCEPT !.iter_ = list_iter_dec(bk, it.iter_)]
             c == {n \in 0..(it.bucket_ndx_ - 1) : ~list_is_empty(bk[n])}
             n == CHOOSE x \in c : \A y \in c : y <= x
         IN  IF IsValid(d) THEN d
             ELSE IF c # {}
                  THEN [d EXCEPT !.bucket_ndx_ = n, !.iter_ = list_begin(bk, n)]
                  ELSE [d EXCEPT !.bucket_ndx_ = kNumBuckets - 1,
                                 !.iter_ = list_end(bk, kNumBuckets - 1)]

\* operator-- (prefix)
op_dec(bk, it) ==
    IF ~it.hash_table_ THEN it
    ELSE LET d == [it EXCEPT !.iter_ = list_iter_dec(bk, it.iter_)]
         IN  IF IsValid(d) THEN d ELSE dec_loop(bk, d)

\* Faulty variant of erase(iterator): unlinks the head of the iterator's bucket.
erase_iter_Head(bk, it) ==
    IF ~IsValid(it) THEN <<Null, bk>>
    ELSE direct_erase(bk, it.bucket_ndx_, bk[it.bucket_ndx_][1])

\* erase(const iterator&): <<ret, buckets_ afterwards>>
erase_iter(bk, it) ==
    IF ~IsValid(it) THEN <<Null, bk>> ELSE direct_erase(bk, it.bucket_ndx_, Deref(it))

\* ---- state ----------------------------------------------------------------
VARIABLES
    buckets_,   \* BucketType buckets_[kNumBuckets]: the chain of every bucket
    count_,     \* size_t count_
    iter,       \* the iterator the client holds
    last,       \* the last call: its name, its argument, what it returned
                \* (clear has no argument: arg is size() before the call)
    order,      \* history: the stored objects, oldest insertion first
    net,        \* history: insert calls minus erase calls that returned non-null
    walk,       \* history: the objects a walk from begin() has stepped over
    drain,      \* history: the current run of erase_if calls with one predicate
    run         \* history: the current run of erase(begin()) calls: the
                \* buckets it started from and what each call returned

vars == <<buckets_, count_, iter, last, order, net, walk, drain, run>>

NoWalk  == [on |-> FALSE, seen |-> <<>>]
NoDrain == [on |-> FALSE, pred |-> "none", k |-> 0, rets |-> <<>>, done |-> FALSE]
NoRun   == [on |-> FALSE, from |-> EmptyBuckets, rets |-> <<>>]

\* The objects linked into some bucket.
Stored(bk) == UNION {Range(bk[i]) : i \in Buckets}

Call(op, arg, ret) == [op |-> op, arg |-> arg, ret |-> ret]

\* constexpr HashTable() {}
Init ==
    /\ buckets_ = EmptyBuckets
    /\ count_ = 0
    /\ iter = DefaultIter
    /\ last = Call("HashTable", Null, Null)
    /\ order = <<>>
    /\ net = 0
    /\ walk = NoWalk
    /\ drain = NoDrain
    /\ run = NoRun

\* What every erase does to the histories, given the handle it returned.  A
\* removal invalidates the iterator the client holds, so the client drops it.
Erased(ret) ==
    /\ order' = IF ret = Null THEN order ELSE RemoveAt(order, IndexOf(order, ret))
    /\ net' = IF ret = Null THEN net ELSE net - 1
    /\ iter' = IF ret = Null THEN iter ELSE DefaultIter
    /\ walk' = IF ret = Null THEN walk ELSE NoWalk

\* insert(ptr) of an object that is in no container, ptr != nullptr
Insert(obj) ==
    /\ obj \notin Stored(buckets_)
    /\ count_ < MaxStored
    /\ GetHashInRange(GetKey(obj))
    /\ buckets_' = insert_buckets(buckets_, obj)
    /\ count_' = count_ + 1
    /\ last' = Call("insert", obj, Null)
    /\ order' = Append(order, obj)
    /\ net' = net + 1
    /\ iter' = DefaultIter
    /\ walk' = NoWalk
    /\ drain' = NoDrain
    /\ run' = NoRun

Find(key) ==
    /\ GetHashInRange(key)
    /\ last' = Call("find", key, find(buckets_, key))
    /\ drain' = NoDrain
    /\ run' = NoRun
    /\ UNCHANGED <<buckets_, count_, iter, order, net, walk>>

EraseKey(key) ==
    /\ GetHashInRange(key)
    /\ LET r == erase_key(buckets_, key)
       IN  /\ buckets_' = r[2]
           /\ count_' = CountAfterErase(count_, r[1])
           /\ last' = Call("erase_key", key, r[1])
           /\ Erased(r[1])
    /\ drain' = NoDrain
    /\ run' = NoRun

\* erase(iter) with the iterator the client holds, begin(), end() or
\* make_iterator of a stored object.
EraseIter(it) ==
    /\ LET r == erase_iter(buckets_, it)
       IN  /\ buckets_' = r[2]
           /\ count_' = CountAfterErase(count_, r[1])
           /\ last' = Call("erase_iter", it, r[1])
           /\ Erased(r[1])
           /\ run' = IF it # iter_begin(buckets_) THEN NoRun
                     ELSE IF run.on /\ Len(run.rets) <= Cardinality(Stored(run.from))
                          THEN [run EXCEPT !.rets = Append(@, r[1])]
                          ELSE [on |-> TRUE, from |-> buckets_, rets |-> <<r[1]>>]
    /\ drain' = NoDrain

EraseObj(obj) ==
    /\ GetHashInRange(GetKey(obj))
    /\ LET r == erase_obj(buckets_, obj)
       IN  /\ buckets_' = r[2]
           /\ count_' = CountAfterErase(count_, r[1])
           /\ last' = Call("erase_obj", obj, r[1])
           /\ Erased(r[1])
    /\ drain' = NoDrain
    /\ run' = NoRun

Clear ==
    /\ buckets_' = clear_buckets(buckets_)
    /\ count_' = 0
    /\ last' = Call("clear", size(count_), Null)
    /\ order' = <<>>
    /\ net' = net - Len(order)
    /\ iter' = DefaultIter
    /\ walk' = NoWalk
    /\ drain' = NoDrain
    /\ run' = NoRun

EraseIf(p) ==
    /\ LET r    == erase_if(buckets_, count_, p)
           cont == drain.on /\ drain.pred = p /\ ~drain.done
           k    == IF cont THEN drain.k
                   ELSE Cardinality({o \in Stored(buckets_) : Pred(p, o)})
           rets == IF cont THEN drain.rets ELSE <<>>
       IN  /\ buckets_' = r[2]
           /\ count_' = CountAfterErase(count_, r[1])
           /\ last' = Call("erase_if", p, r[1])
           /\ Erased(r[1])
           /\ drain' = [on |-> TRUE, pred |-> p, k |-> k,
                        rets |-> IF r[1] = Null THEN rets ELSE Append(rets, r[1]),
                        done |-> r[1] = Null]
    /\ run' = NoRun

FindIf(p) ==
    /\ last' = Call("find_if", p, find_if(buckets_, count_, p))
    /\ drain' = NoDrain
    /\ run' = NoRun
    /\ UNCHANGED <<buckets_, count_, iter, order, net, walk>>

\* it = begin()
IterBegin ==
    /\ iter' = iter_begin(buckets_)
    /\ last' = Call("begin", Null, Null)
    /\ walk' = [on |-> TRUE, seen |-> <<>>]
    /\ drain' = NoDrain
    /\ run' = NoRun
    /\ UNCHANGED <<buckets_, count_, order, net>>

\* it = end()
IterEnd ==
    /\ iter' = iter_end(buckets_)
    /\ last' = Call("end", Null, Null)
    /\ walk' = NoWalk
    /\ drain' = NoDrain
    /\ run' = NoRun
    /\ UNCHANGED <<buckets_, count_, order, net>>

\* it = make_iterator(obj) of a stored object
IterMake(obj) ==
    /\ obj \in Stored(buckets_)
    /\ GetHashInRange(GetKey(obj))
    /\ iter' = make_iterator(buckets_, obj)
    /\ last' = Call("make_iterator", obj, Null)
    /\ walk' = NoWalk
    /\ drain' = NoDrain
    /\ run' = NoRun
    /\ UNCHANGED <<buckets_, count_, order, net>>

\* ++it
IterInc ==
    /\ iter' = op_inc(buckets_, iter)
    /\ last' = Call("inc", iter, Null)
    /\ walk' = IF walk.on /\ IsValid(iter)
               THEN [walk EXCEPT !.seen = Append(@, Deref(iter))]
               ELSE walk
    /\ drain' = NoDrain
    /\ run' = NoRun
    /\ UNCHANGED <<buckets_, count_, order, net>>

\* --it
IterDec ==
    /\ iter' = op_dec(buckets_, iter)
    /\ last' = Call("dec", iter, Null)
    /\ walk' = NoWalk
    /\ drain' = NoDrain
    /\ run' = NoRun
    /\ UNCHANGED <<buckets_, count_, order, net>>

\* The iterators a client can hand to erase(iterator).
EraseIterArgs ==
    {iter, iter_begin(buckets_), iter_end(buckets_)}
        \cup {make_iterator(buckets_, o) : o \in Stored(buckets_)}

\* The table driven through its own interface.
Next ==
    \/ \E obj \in Objs : Insert(obj)
    \/ \E key \in Keys : Find(key)
    \/ \E key \in Keys : EraseKey(key)
    \/ \E it \in EraseIterArgs : EraseIter(it)
    \/ \E obj \in Objs : EraseObj(obj)
    \/ \E p \in Preds : EraseIf(p)
    \/ \E p \in Preds : FindIf(p)
    \/ Clear

Spec == Init /\ [][Next]_vars

\* A client that fills the table and moves an iterator over it.
NextIter ==
    \/ \E obj \in Objs : Insert(obj)
    \/ \E it \in EraseIterArgs : EraseIter(it)
    \/ IterBegin
    \/ IterEnd
    \/ \E obj \in Objs : IterMake(obj)
    \/ IterInc
    \/ IterDec

SpecIter == Init /\ [][NextIter]_vars

\* The same table used with insert and erase calls only (never cleared).
NextInsertErase ==
    \/ \E obj \in Objs : Insert(obj)
    \/ \E key \in Keys : EraseKey(key)
    \/ \E it \in EraseIterArgs : EraseIter(it)
    \/ \E obj \in Objs : EraseObj(obj)
    \/ \E p \in Preds : EraseIf(p)

SpecInsertErase == Init /\ [][NextInsertErase]_vars

\* A client that only fills the table and reads it: lookups and iterator moves.
NextRead ==
    \/ \E obj \in Objs : Insert(obj)
    \/ \E key \in Keys : Find(key)
    \/ \E p \in Preds : FindIf(p)
    \/ IterBegin
    \/ IterEnd
    \/ \E obj \in Objs : IterMake(obj)
    \/ IterInc
    \/ IterDec

SpecRead == Init /\ [][NextRead]_vars

\* ---- calls that break a contract, and the destructor ----------------------
\* A failed DEBUG_ASSERT stops the program, and so does the end of the table's
\* life: no call follows either.
Halted == last.op \in {"DEBUG_ASSERT", "~HashTable"}

\* What a custom HashTraits::GetHash may return: in range or beyond it.
HashValues == 0..(kNumBuckets + 1)

InRange(h) == (h >= 0) /\ (h < kNumBuckets)

\* Faulty variant of insert_call: ++count_ is done before the bucket is looked up.
insert_call_CountFirst(bk, count, ptr, h) ==
    IF ptr = Null THEN <<"DEBUG_ASSERT", bk, count>>
    ELSE IF ~InRange(h) THEN <<"DEBUG_ASSERT", bk, count + 1>>
    ELSE <<"completed", [bk EXCEPT ![h] = list_push_front(@, ptr)], count + 1>>

\* insert(ptr) when HashTraits::GetHash gives h for the key of *ptr, statement
\* by statement: the two assertions, push_front, ++count_.
\* <<outcome, buckets_, count_>>
insert_call(bk, count, ptr, h) ==
    IF ptr = Null THEN <<"DEBUG_ASSERT", bk, count>>
    ELSE IF ~InRange(h) THEN <<"DEBUG_ASSERT", bk, count>>
    ELSE <<"completed", [bk EXCEPT ![h] = list_push_front(@, ptr)], count + 1>>

\* erase(key) when HashTraits::GetHash gives h for key.
\* <<outcome, buckets_, count_>>
erase_call(bk, count, key, h) ==
    IF ~InRange(h) THEN <<"DEBUG_ASSERT", bk, count>>
    ELSE LET r == KeyEraseUtils_erase(bk[h], key)
         IN  <<"completed", [bk EXCEPT ![h] = r[2]], CountAfterErase(count, r[1])>>

\* Faulty variant of the destructor's check: the ownership discipline is ignored.
DtorCheck_EmptyOnly(IsManaged, count) == is_empty(count)

\* ~HashTable(): DEBUG_ASSERT(PtrTraits::IsManaged || is_empty())
DtorCheck(IsManaged, count) == IsManaged \/ is_empty(count)

NoHistoryChange ==
    /\ iter' = DefaultIter
    /\ walk' = NoWalk
    /\ drain' = NoDrain
    /\ run' = NoRun
    /\ UNCHANGED <<order, net>>

\* insert(ptr) with a null handle, or with a key the hash traits send out of range
ContractInsert(ptr, h) ==
    /\ ~Halted
    /\ ptr = Null \/ ~InRange(h)
    /\ ptr \notin Stored(buckets_)
    /\ LET r == insert_call(buckets_, count_, ptr, h)
       IN  /\ buckets_' = r[2]
           /\ count_' = r[3]
           /\ last' = Call(r[1], [call |-> "insert", ptr |-> ptr, h |-> h], Null)
    /\ NoHistoryChange

\* erase(key) with a key the hash traits send out of range
ContractErase(key, h) ==
    /\ ~Halted
    /\ ~InRange(h)
    /\ LET r == erase_call(buckets_, count_, key, h)
       IN  /\ buckets_' = r[2]
           /\ count_' = r[3]
           /\ last' = Call(r[1], [call |-> "erase", key |-> key, h |-> h], Null)
    /\ NoHistoryChange

\* ~HashTable() of a table whose pointer type is managed, or is not
Destroy(IsManaged) ==
    /\ ~Halted
    /\ last' = Call(IF DtorCheck(IsManaged, count_) THEN "~HashTable" ELSE "DEBUG_ASSERT",
                    [call |-> "~HashTable", managed |-> IsManaged], Null)
    /\ UNCHANGED <<buckets_, count_>>
    /\ NoHistoryChange

LiveInsert(obj) == ~Halted /\ Insert(obj)

LiveEraseKey(key) == ~Halted /\ EraseKey(key)

\* The life of a table, with callers that break the contracts.
NextContract ==
    \/ \E obj \in Objs : LiveInsert(obj)
    \/ \E key \in Keys : LiveEraseKey(key)
    \/ \E ptr \in Objs \cup {Null}, h \in HashValues : ContractInsert(ptr, h)
    \/ \E key \in Keys, h \in HashValues : ContractErase(key, h)
    \/ \E IsManaged \in BOOLEAN : Destroy(IsManaged)

SpecContract == Init /\ [][NextContract]_vars

\* ---- what the properties are stated with ----------------------------------
RECURSIVE SumLen(_, _)
SumLen(bk, i) == IF i >= kNumBuckets THEN 0 ELSE Len(bk[i]) + SumLen(bk, i + 1)

\* All chains, bucket 0 first.
RECURSIVE Flatten(_, _)
Flatten(bk, i) == IF i >= kNumBuckets THEN <<>> ELSE bk[i] \o Flatten(bk, i + 1)

Reverse(s) == [i \in 1..Len(s) |-> s[Len(s) + 1 - i]]

\* The hash of an object's key, as the hash traits give it.
HashOf(obj) == HashTraits_GetHash(GetKey(obj))

\* The stored objects that hash to i, most recently inserted first.
RecentFirst(i) ==
    LET InBucket(o) == HashOf(o) = i IN Reverse(SelectSeq(order, InBucket))

\* The table without the object r, every chain otherwise as it was.
Without(bk, r) ==
    [i \in Buckets |-> LET Keep(o) == o # r IN SelectSeq(bk[i], Keep)]

EraseOps == {"erase_key", "erase_iter", "erase_obj", "erase_if"}

\* C1: every stored object sits in the bucket whose index is the hash of its
\* key, and in no other bucket.
C1_BucketIsHashOfKey ==
    \A o \in Objs : \A i \in Buckets :
        o \in Range(buckets_[i]) => i = HashOf(o)

C1_Witness ==
    /\ last.op \in EraseOps
    /\ last.ret # Null
    /\ \E i, j \in Buckets : i # j /\ i # 0 /\ buckets_[i] # <<>> /\ buckets_[j] # <<>>

\* C2: the maintained count equals the sum of the chain lengths of all buckets,
\* and is_empty() is true exactly when every bucket is empty.
C2_CountIsSumOfChains ==
    /\ size(count_) = SumLen(buckets_, 0)
    /\ is_empty(count_) <=> \A i \in Buckets : buckets_[i] = <<>>

C2_Witness ==
    /\ last.op \in EraseOps
    /\ last.ret = Null
    /\ count_ >= 2
    /\ ~is_empty(count_)

\* A step of an erase call that returns null keeps size().
C3_NullEraseKeepsSize ==
    (last'.op \in EraseOps /\ last'.ret = Null) => size(count_') = size(count_)

\* C3: with insert and erase calls only, size() is the number of insert calls
\* minus the number of erase calls that returned a non-null handle, and an
\* erase call that returns null does not change size().
C3_SizeIsInsertsMinusErases ==
    /\ [](size(count_) = net)
    /\ [][C3_NullEraseKeepsSize]_vars

C3_Witness ==
    /\ drain.done
    /\ Len(drain.rets) >= 1
    /\ last.ret = Null
    /\ net >= 1
    /\ size(count_) = net

\* What the last find(key) returned, against the chain and the insertion history;
\* and find(key(o)) as the call that follows insert(o).
C4_FindResult ==
    last.op = "find" =>
        LET key   == last.arg
            chain == buckets_[HashTraits_GetHash(key)]
            m     == {i \in 1..Len(chain) : GetKey(chain[i]) = key}
            n     == {i \in 1..Len(order) : GetKey(order[i]) = key}
        IN  /\ (last.ret = Null) <=> ~\E o \in Stored(buckets_) : GetKey(o) = key
            /\ m # {} => last.ret = chain[Min(m)]
            /\ n # {} => last.ret = order[CHOOSE i \in n : \A j \in n : j <= i]

C4_FindAfterInsert ==
    (last.op = "insert" /\ last'.op = "find" /\ last'.arg = GetKey(last.arg))
        => last'.ret = last.arg

\* C4: find(key) returns the first object of the chain of bucket hash(key)
\* whose key equals key, which is the most recently inserted stored object
\* with that key; it returns null exactly when no stored object has the key;
\* find(key(o)) right after insert(o) returns o itself.
C4_FindFirstMatch ==
    /\ []C4_FindResult
    /\ [][C4_FindAfterInsert]_vars

C4_Witness ==
    /\ last.op = "find"
    /\ last.ret # Null
    /\ Cardinality({o \in Stored(buckets_) : GetKey(o) = last.arg}) = 2
    /\ buckets_[HashOf(last.ret)][1] # last.ret

\* The order the claims give for a forward walk: ascending bucket index,
\* inside a bucket the most recently inserted object first.
RECURSIVE ExpectedWalk(_)
ExpectedWalk(i) == IF i >= kNumBuckets THEN <<>> ELSE RecentFirst(i) \o ExpectedWalk(i + 1)

\* C5: a forward walk from begin() reaches end() after exactly size()
\* increments and visits every stored object exactly once, by ascending bucket
\* index and most recently inserted first inside a bucket; empty buckets are
\* skipped, and on an empty table begin() is end().
C5_ForwardWalk ==
    walk.on =>
        LET e == ExpectedWalk(0)
            n == Len(walk.seen)
        IN  /\ n <= Len(e)
            /\ walk.seen = SubSeq(e, 1, n)
            /\ IsValid(iter) => (n < Len(e) /\ Deref(iter) = e[n + 1])
            /\ ~IsValid(iter) =>
                   /\ iter = iter_end(buckets_)
                   /\ IterEq(iter, iter_end(buckets_))
                   /\ n = size(count_)
                   /\ walk.seen = e
                   /\ Range(walk.seen) = Stored(buckets_)

C5_Witness ==
    /\ walk.on
    /\ last.op = "inc"
    /\ IterEq(iter, iter_end(buckets_))
    /\ Len(walk.seen) = 3
    /\ \E i, j, k \in Buckets :
           /\ i < j /\ j < k
           /\ Len(buckets_[i]) = 2 /\ buckets_[j] = <<>> /\ buckets_[k] # <<>>

\* C6: on any table state, decrementing begin() gives an iterator equal to
\* end(), with the last bucket's index and that bucket's end as position, and
\* incrementing end() leaves it equal to end() with its bucket index unchanged.
C6_WrapAtTheEnds ==
    LET b == iter_begin(buckets_)
        e == iter_end(buckets_)
    IN  /\ IterEq(op_dec(buckets_, b), e)
        /\ op_dec(buckets_, b).bucket_ndx_ = kNumBuckets - 1
        /\ op_dec(buckets_, b).iter_ = list_end(buckets_, kNumBuckets - 1)
        /\ IterEq(op_inc(buckets_, e), e)
        /\ op_inc(buckets_, e).bucket_ndx_ = e.bucket_ndx_
        /\ (last.op = "dec" /\ last.arg = b) => iter = e
        /\ (last.op = "inc" /\ last.arg = e) => iter = e

C6_Witness ==
    /\ last.op = "dec"
    /\ last.arg = iter_begin(buckets_)
    /\ IsValid(last.arg)
    /\ last.arg.bucket_ndx_ # 0
    /\ iter = iter_end(buckets_)
    /\ count_ >= 2

\* The stored objects whose key is key.
WithKey(bk, key) == {o \in Stored(bk) : GetKey(o) = key}

\* The first object of a sequence of objects that lies in the set S, else Null.
FirstIn(sq, S) ==
    LET m == {i \in 1..Len(sq) : sq[i] \in S}
    IN  IF m = {} THEN Null ELSE sq[Min(m)]

\* A step of erase(key) while an object with that key is stored.
C7_EraseKeyStep ==
    (last'.op = "erase_key" /\ WithKey(buckets_, last'.arg) # {}) =>
        LET key == last'.arg
            r   == last'.ret
        IN  /\ r # Null
            /\ GetKey(r) = key
            /\ r = FirstIn(buckets_[HashTraits_GetHash(key)], WithKey(buckets_, key))
            /\ size(count_') = size(count_) - 1
            /\ Stored(buckets_') = Stored(buckets_) \ {r}
            /\ buckets_' = Without(buckets_, r)

\* C7: erase(key) with a stored object of that key removes exactly one object,
\* the one it returns: the first of the chain of bucket hash(key) whose key is
\* key; size() drops by one; every other object, also one with an equal key,
\* stays, and the chain order of what remains is unchanged in every bucket.
C7_EraseKeyRemovesFirstMatch == [][C7_EraseKeyStep]_vars

C7_Witness ==
    /\ last.op = "erase_key"
    /\ last.ret # Null
    /\ WithKey(buckets_, last.arg) # {}
    /\ Len(buckets_[HashOf(last.ret)]) = 2
    /\ buckets_[HashOf(last.ret)][1] \notin WithKey(buckets_, last.arg)

\* A step of erase(key) while no object with that key is stored.
C8_EraseAbsentKeyStep ==
    (last'.op = "erase_key" /\ WithKey(buckets_, last'.arg) = {}) =>
        /\ last'.ret = Null
        /\ size(count_') = size(count_)
        /\ buckets_' = buckets_

\* C8: erase(key) with no stored object of that key returns null and leaves
\* size() and the contents and order of every bucket unchanged.
C8_EraseAbsentKey == [][C8_EraseAbsentKeyStep]_vars

C8_Witness ==
    /\ last.op = "erase_key"
    /\ last.ret = Null
    /\ WithKey(buckets_, last.arg) = {}
    /\ Len(buckets_[HashTraits_GetHash(last.arg)]) >= 2

\* A step of erase_if against the scan order, and the run of consecutive
\* erase_if calls with one predicate.
C9_EraseIfStep ==
    last'.op = "erase_if" =>
        LET p == last'.arg
            r == last'.ret
            f == FirstIn(Flatten(buckets_, 0), {o \in Objs : Pred(p, o)})
        IN  /\ r = f
            /\ r # Null => /\ Pred(p, r)
                           /\ size(count_') = size(count_) - 1
                           /\ buckets_' = Without(buckets_, r)
            /\ r = Null => /\ size(count_') = size(count_)
                           /\ buckets_' = buckets_

C9_DrainRun ==
    drain.on =>
        /\ Len(drain.rets) <= drain.k
        /\ drain.done <=> last.ret = Null
        /\ drain.done => Len(drain.rets) = drain.k
        /\ \A i \in 1..Len(drain.rets) : Pred(drain.pred, drain.rets[i])
        /\ \A i, j \in 1..Len(drain.rets) : i # j => drain.rets[i] # drain.rets[j]
        /\ drain.done => ~\E o \in Stored(buckets_) : Pred(drain.pred, o)

\* C9: erase_if(predicate) removes at most one object per call, the first one
\* in scan order (ascending bucket index, chain order) that satisfies the
\* predicate, returns it and decrements size(); with k matching objects stored,
\* exactly k consecutive calls return non-null, each a distinct matching
\* object, and call k+1 returns null and leaves the table unchanged.
C9_EraseIfDrains ==
    /\ []C9_DrainRun
    /\ [][C9_EraseIfStep]_vars

C9_Witness ==
    /\ drain.on
    /\ drain.done
    /\ drain.k = 2
    /\ Len(drain.rets) = 2
    /\ HashOf(drain.rets[1]) < HashOf(drain.rets[2])
    /\ count_ = 1
    /\ buckets_[0] # <<>>

\* The objects in the order a forward walk from the iterator it meets them.
RECURSIVE WalkFrom(_, _, _)
WalkFrom(bk, it, fuel) ==
    IF fuel = 0 \/ ~IsValid(it) THEN <<>>
    ELSE <<Deref(it)>> \o WalkFrom(bk, op_inc(bk, it), fuel - 1)

\* What the last find_if returned, and a step of find_if.
C10_FindIfResult ==
    last.op = "find_if" =>
        LET p == last.arg
            m == {o \in Stored(buckets_) : Pred(p, o)}
        IN  /\ last.ret = erase_if(buckets_, count_, p)[1]
            /\ last.ret = FirstIn(WalkFrom(buckets_, iter_begin(buckets_), MaxStored + 1), m)
            /\ (last.ret = Null) <=> (m = {})
            /\ Stored(buckets_) = {} => last.ret = Null

C10_FindIfStep ==
    last'.op = "find_if" => (buckets_' = buckets_ /\ count_' = count_)

\* C10: find_if(predicate) returns exactly the object erase_if(predicate) would
\* remove from the same state, the first match in forward-iteration order; it
\* returns null when no stored object matches or the table is empty, and it
\* leaves the table unchanged.
C10_FindIfIsEraseIfTarget ==
    /\ []C10_FindIfResult
    /\ [][C10_FindIfStep]_vars

C10_Witness ==
    /\ last.op = "find_if"
    /\ last.ret # Null
    /\ buckets_[0] # <<>>
    /\ HashOf(last.ret) # 0
    /\ buckets_[HashOf(last.ret)][1] # last.ret

\* The call that follows clear(), against what a freshly constructed table
\* does with the same call.
C11_CallAfterClear ==
    last.op = "clear" =>
        /\ last'.op = "insert" =>
               /\ buckets_' = [EmptyBuckets EXCEPT ![HashOf(last'.arg)] = <<last'.arg>>]
               /\ size(count_') = 1
        /\ last'.op \in EraseOps \cup {"find", "find_if"} =>
               /\ last'.ret = Null
               /\ buckets_' = EmptyBuckets
               /\ size(count_') = 0

\* C11: after clear() on any reachable table every bucket is empty, size() is 0
\* and is_empty() is true; the table is then in the state of a freshly
\* constructed one (buckets_ and count_ are all the state it has), and the call
\* that follows gives what it gives on a fresh table.
C11_ClearGivesFreshTable ==
    /\ [](last.op = "clear" =>
            /\ \A i \in Buckets : buckets_[i] = <<>>
            /\ size(count_) = 0
            /\ is_empty(count_)
            /\ iter_begin(buckets_) = iter_end(buckets_))
    /\ [][C11_CallAfterClear]_vars

C11_Witness ==
    /\ last.op = "clear"
    /\ last.arg = MaxStored
    /\ is_empty(count_)

\* The iterator it denotes an object stored in the bucket at its bucket index.
DenotesStored(bk, it) ==
    /\ it.hash_table_
    /\ IsValid(it)
    /\ Deref(it) \in Range(bk[it.bucket_ndx_])

\* A step of erase(iterator).
C12_EraseIterStep ==
    last'.op = "erase_iter" =>
        LET it == last'.arg
            r  == last'.ret
        IN  /\ DenotesStored(buckets_, it) =>
                   /\ r = Deref(it)
                   /\ size(count_') = size(count_) - 1
                   /\ buckets_'[it.bucket_ndx_] =
                          RemoveAt(buckets_[it.bucket_ndx_],
                                   IndexOf(buckets_[it.bucket_ndx_], Deref(it)))
                   /\ buckets_' = Without(buckets_, Deref(it))
            /\ ~IsValid(it) =>
                   /\ r = Null
                   /\ size(count_') = size(count_)
                   /\ buckets_' = buckets_

\* C12: erase(iterator) with an iterator that denotes a stored object unlinks
\* exactly that object from the bucket at the iterator's bucket index, returns
\* it and decrements size() by one; with an iterator at end() or otherwise
\* invalid it returns null and leaves size() and every bucket unchanged.
C12_EraseIter == [][C12_EraseIterStep]_vars

C12_Witness ==
    /\ last.op = "erase_iter"
    /\ last.ret # Null
    /\ last.ret = Deref(last.arg)
    /\ last.arg.bucket_ndx_ # 0
    /\ buckets_[0] # <<>>
    /\ buckets_[last.arg.bucket_ndx_] # <<>>

\* A step of erase(obj) for a stored object obj.
C13_EraseObjStep ==
    (last'.op = "erase_obj" /\ last'.arg \in Stored(buckets_)) =>
        LET o  == last'.arg
            vi == erase_iter(buckets_, make_iterator(buckets_, o))
        IN  /\ last'.ret = o
            /\ size(count_') = size(count_) - 1
            /\ buckets_'[HashOf(o)] =
                   RemoveAt(buckets_[HashOf(o)], IndexOf(buckets_[HashOf(o)], o))
            /\ buckets_' = Without(buckets_, o)
            /\ last'.ret = vi[1]
            /\ buckets_' = vi[2]
            /\ count_' = CountAfterErase(count_, vi[1])

\* C13: for every stored object o, erase(o) removes that very object (not
\* another one with an equal key) from bucket hash(key(o)) and decrements
\* size() by one; it leaves the table state and returns the object that
\* erase(make_iterator(o)) leaves and returns.
C13_EraseObj == [][C13_EraseObjStep]_vars

C13_Witness ==
    /\ last.op = "erase_obj"
    /\ last.ret = last.arg
    /\ last.ret # Null
    /\ WithKey(buckets_, GetKey(last.ret)) # {}
    /\ Len(buckets_[HashOf(last.ret)]) = 2

\* A step of a call that breaks a contract.
C14_RefusedStep ==
    (last'.op \in {"DEBUG_ASSERT", "completed"} /\ last'.arg.call \in {"insert", "erase"}) =>
        /\ last'.op = "DEBUG_ASSERT"
        /\ buckets_' = buckets_
        /\ count_' = count_

\* C14: a mutating call that breaks a contract (insert of a null handle, an
\* insert or erase whose hash value is outside [0, kNumBuckets)) is refused by
\* assertion before any bucket or the count is modified: in no reachable state
\* is an object linked without the count incremented, or the count changed
\* without a link or unlink.
C14_RefusedBeforeMutation ==
    /\ [](size(count_) = SumLen(buckets_, 0))
    /\ [](\A o \in Objs : Cardinality({<<i, j>> \in Buckets \X (1..MaxStored) :
                              j <= Len(buckets_[i]) /\ buckets_[i][j] = o}) <= 1)
    /\ [][C14_RefusedStep]_vars

C14_Witness ==
    /\ last.op = "DEBUG_ASSERT"
    /\ last.arg.call = "insert"
    /\ last.arg.ptr # Null
    /\ ~InRange(last.arg.h)
    /\ count_ = 2
    /\ SumLen(buckets_, 0) = 2

\* C15: destroying a table whose pointer type is not managed while it holds an
\* object is an assertion failure; destroying an empty table, or a table with
\* a managed pointer type in any state, passes the destructor's check.
C15_DestructorCheck ==
    /\ (last.op = "DEBUG_ASSERT" /\ last.arg.call = "~HashTable") =>
           (~last.arg.managed /\ Stored(buckets_) # {})
    /\ last.op = "~HashTable" =>
           (last.arg.managed \/ Stored(buckets_) = {})

C15_Witness ==
    /\ last.op = "DEBUG_ASSERT"
    /\ last.arg.call = "~HashTable"
    /\ ~last.arg.managed
    /\ count_ >= 2

\* The iterator after n decrements of it.
RECURSIVE DecN(_, _, _)
DecN(bk, it, n) == IF n = 0 THEN it ELSE DecN(bk, op_dec(bk, it), n - 1)

\* The stored objects in forward-iteration order.
ForwardSeq(bk) == WalkFrom(bk, iter_begin(bk), MaxStored + 1)

\* C16: backward traversal mirrors forward traversal: from end() of a table
\* with n stored objects, n decrements visit the stored objects in the reverse
\* of the forward-iteration order (descending bucket index, last chain element
\* first), and one further decrement returns to end().
C16_BackwardMirrorsForward ==
    LET n   == size(count_)
        fwd == ForwardSeq(buckets_)
        e   == iter_end(buckets_)
    IN  /\ Len(fwd) = n
        /\ \A i \in 1..n :
               LET d == DecN(buckets_, e, i)
               IN  /\ IsValid(d)
                   /\ Deref(d) = fwd[n + 1 - i]
                   /\ Deref(d) = Reverse(Flatten(buckets_, 0))[i]
                   /\ d.bucket_ndx_ = HashOf(Deref(d))
        /\ DecN(buckets_, e, n + 1) = e
        /\ (last.op = "dec" /\ last.arg.hash_table_ /\ IsValid(last.arg)) =>
               IF Deref(last.arg) = fwd[1]
               THEN iter = e
               ELSE IsValid(iter) /\ Deref(iter) = fwd[IndexOf(fwd, Deref(last.arg)) - 1]
        /\ (last.op = "dec" /\ last.arg = e /\ n > 0) => Deref(iter) = fwd[n]

C16_Witness ==
    /\ last.op = "dec"
    /\ IsValid(last.arg)
    /\ IsValid(iter)
    /\ iter.bucket_ndx_ = 0
    /\ last.arg.bucket_ndx_ >= 2
    /\ Len(buckets_[0]) = 2
    /\ Deref(iter) = buckets_[0][2]

\* C17: a run of erase(begin()) calls started on a table with n stored
\* objects returns a non-null handle on each of the first n calls, returns the
\* stored objects once each in forward-iteration order, and after n calls
\* is_empty() is true and begin() equals end(); a call after that returns null.
C17_EraseBeginDrains ==
    run.on =>
        LET plan == ForwardSeq(run.from)
            n    == Len(plan)
            k    == Len(run.rets)
        IN  /\ n = Cardinality(Stored(run.from))
            /\ Range(plan) = Stored(run.from)
            /\ k >= 1
            /\ k <= n + 1
            /\ \A i \in 1..Min({k, n}) : run.rets[i] # Null /\ run.rets[i] = plan[i]
            /\ (k <= n) =>
                   /\ size(count_) = n - k
                   /\ ForwardSeq(buckets_) = SubSeq(plan, k + 1, n)
            /\ (k >= n) =>
                   /\ is_empty(count_)
                   /\ Stored(buckets_) = {}
                   /\ iter_begin(buckets_) = iter_end(buckets_)
                   /\ IterEq(iter_begin(buckets_), iter_end(buckets_))
            /\ (k = n + 1) => run.rets[k] = Null

C17_Witness ==
    /\ run.on
    /\ Len(run.rets) = 3
    /\ Len(run.from[0]) = 1
    /\ Len(run.from[1]) = 0
    /\ Len(run.from[2]) = 2
    /\ run.rets = <<run.from[0][1], run.from[2][1], run.from[2][2]>>
    /\ last.op = "erase_iter"
    /\ is_empty(count_)

\* The iterator a forward walk from it holds when it reaches the object o.
RECURSIVE IterAt(_, _, _, _)
IterAt(bk, it, o, fuel) ==
    IF fuel = 0 \/ ~IsValid(it) \/ Deref(it) = o THEN it
    ELSE IterAt(bk, op_inc(bk, it), o, fuel - 1)

\* C18: for every stored object o, make_iterator(o) denotes o with bucket
\* index hash(key(o)), compares equal to the iterator a forward walk from
\* begin() holds at o, and has the same successor under increment.
C18_MakeIteratorIsWalkIterator ==
    /\ \A o \in Stored(buckets_) :
           LET m == make_iterator(buckets_, o)
               w == IterAt(buckets_, iter_begin(buckets_), o, MaxStored + 1)
           IN  /\ IsValid(m)
               /\ Deref(m) = o
               /\ m.bucket_ndx_ = HashOf(o)
               /\ DenotesStored(buckets_, m)
               /\ IsValid(w) /\ Deref(w) = o
               /\ IterEq(m, w)
               /\ m = w
               /\ op_inc(buckets_, m) = op_inc(buckets_, w)
               /\ IterEq(op_inc(buckets_, m), op_inc(buckets_, w))
    /\ (last.op = "make_iterator") =>
           /\ last.arg \in Stored(buckets_)
           /\ iter = IterAt(buckets_, iter_begin(buckets_), last.arg, MaxStored + 1)
           /\ Deref(iter) = last.arg
           /\ iter.bucket_ndx_ = HashOf(last.arg)

C18_Witness ==
    /\ last.op = "make_iterator"
    /\ iter.bucket_ndx_ = 2
    /\ Len(buckets_[2]) = 2
    /\ Deref(iter) = buckets_[2][2]
    /\ Len(buckets_[0]) = 1
    /\ Len(buckets_[1]) = 0

\* The end sentinel: the last bucket's index and that bucket's end.
IsSentinel(bk, it) ==
    /\ it.bucket_ndx_ = kNumBuckets - 1
    /\ it.iter_ = list_end(bk, kNumBuckets - 1)

\* An iterator in canonical form: valid and denoting an object stored in the
\* bucket of its own index, or the end sentinel.
Canonical(bk, it) ==
    \/ /\ DenotesStored(bk, it)
       /\ it.iter_.list_ = it.bucket_ndx_
    \/ /\ ~IsValid(it)
       /\ IsSentinel(bk, it)

\* begin(), end() and make_iterator of every stored object.
Obtained(bk) ==
    {iter_begin(bk), iter_end(bk)} \cup {make_iterator(bk, o) : o \in Stored(bk)}

\* The iterators of s and the ones one increment or one decrement away.
OneStep(bk, s) ==
    s \cup {op_inc(bk, it) : it \in s} \cup {op_dec(bk, it) : it \in s}

\* C19: with no table mutation in between, every iterator obtained from
\* begin(), end() or make_iterator(stored object) and increments and decrements
\* is valid and denotes an object stored in the bucket of its own index, or is
\* exactly the end sentinel; two such iterators compare equal exactly when they
\* denote the same object or are both the sentinel.
C19_CanonicalForm ==
    LET its == OneStep(buckets_, OneStep(buckets_,
                   Obtained(buckets_) \cup (IF iter.hash_table_ THEN {iter} ELSE {})))
    IN  /\ iter.hash_table_ => Canonical(buckets_, iter)
        /\ \A it \in its :
               /\ Canonical(buckets_, it)
               /\ ~IsValid(it) => it = iter_end(buckets_)
        /\ \A a \in its : \A b \in its :
               /\ IterEq(a, b) <=>
                      \/ IsValid(a) /\ IsValid(b) /\ Deref(a) = Deref(b)
                      \/ IsSentinel(buckets_, a) /\ IsSentinel(buckets_, b)
               /\ IterEq(a, b) <=> (a = b)

C19_Witness ==
    /\ last.op = "inc"
    /\ IsValid(last.arg)
    /\ last.arg.bucket_ndx_ = 0
    /\ list_is_empty(buckets_[1])
    /\ list_is_empty(buckets_[2])
    /\ iter = iter_end(buckets_)
    /\ Len(buckets_[0]) = 2

\* C20: increment and decrement are inverse except at the wrap: decrementing
\* the increment of an iterator that denotes a stored object gives that
\* iterator back (also when the increment reached end()); incrementing the
\* decrement of a bound iterator other than begin() gives that iterator back;
\* for begin() of a non-empty table that round trip gives end(), not begin().
C20_IncDecInverse ==
    LET b     == iter_begin(buckets_)
        e     == iter_end(buckets_)
        bound == Obtained(buckets_) \cup (IF iter.hash_table_ THEN {iter} ELSE {})
    IN  /\ \A it \in bound :
               IsValid(it) =>
                   /\ op_dec(buckets_, op_inc(buckets_, it)) = it
                   /\ IterEq(op_dec(buckets_, op_inc(buckets_, it)), it)
        /\ \A it \in bound :
               (it # b) =>
                   /\ op_inc(buckets_, op_dec(buckets_, it)) = it
                   /\ IterEq(op_inc(buckets_, op_dec(buckets_, it)), it)
        /\ ~is_empty(count_) =>
               /\ op_inc(buckets_, op_dec(buckets_, b)) = e
               /\ b # e
               /\ ~IterEq(op_inc(buckets_, op_dec(buckets_, b)), b)
        /\ (last.op = "inc" /\ IsValid(last.arg)) => op_dec(buckets_, iter) = last.arg
        /\ (last.op = "dec" /\ last.arg.hash_table_ /\ last.arg # b) =>
               op_inc(buckets_, iter) = last.arg

C20_Witness ==
    /\ last.op = "dec"
    /\ last.arg = iter_end(buckets_)
    /\ IsValid(iter)
    /\ iter.bucket_ndx_ = 0
    /\ Len(buckets_[0]) = 2
    /\ Deref(iter) = buckets_[0][2]
    /\ op_inc(buckets_, iter) = last.arg
    /\ op_inc(buckets_, op_dec(buckets_, iter_begin(buckets_))) = iter_end(buckets_)

\* The calls that only read the table.
ReadOps == {"find", "find_if", "begin", "end", "make_iterator", "inc", "dec"}

C21_FrameStep ==
    /\ (last'.op \in ReadOps) =>
           /\ buckets_' = buckets_
           /\ count_' = count_
           /\ size(count_') = size(count_)
           /\ is_empty(count_') = is_empty(count_)
    /\ (last'.op = "insert") =>
           LET o == last'.arg
               h == HashOf(o)
           IN  /\ \A i \in Buckets \ {h} : buckets_'[i] = buckets_[i]
               /\ buckets_'[h] = <<o>> \o buckets_[h]
               /\ count_' = count_ + 1

\* C21: find, find_if, size, is_empty, begin, end, cbegin, cend, make_iterator
\* and iterator increment and decrement leave the count and every bucket's
\* contents and chain order unchanged; insert(o) changes only the bucket at
\* index hash(key(o)), where o becomes the first element and the rest keep
\* their order, and adds one to the count.
C21_Frame == [][C21_FrameStep]_vars

C21_Witness ==
    /\ last.op = "insert"
    /\ HashOf(last.arg) = 2
    /\ Len(buckets_[2]) = 2
    /\ buckets_[2][1] = last.arg
    /\ Len(buckets_[0]) = 1
    /\ count_ = 3

====
